---- MODULE Spec2Model ----
(***************************************************************************)
(* Model of src/cprogramminglab/queue.c: a queue of copied C strings kept  *)
(* in a doubly linked list (queue_t: head, tail, size; list_ele_t: value,  *)
(* next, prev).  Every queue operation is one atomic action, the program   *)
(* is single threaded.  The heap is modelled explicitly: node blocks and   *)
(* string blocks have addresses, malloc returns NULL or the lowest free     *)
(* address, free releases a live address.                                  *)
(***************************************************************************)
EXTENDS Integers, Sequences, FiniteSets, TLC

\* ---------------------------------------------------------------- bounds
MaxNodes == 3      \* node blocks (and string blocks) the heap can hold at once
MaxBuf   == 3      \* largest bufsize a caller passes to queue_remove_head
SizeBits == 8      \* modelled width of size_t

NULL == 0
NUL  == "NUL"      \* the terminator '\0'
JUNK == "?"        \* a cell of caller memory the call has not written

NodeAddr == 1..MaxNodes
StrAddr  == 1..MaxNodes
Chars    == {"a", "b"}
\* the strings callers insert (without their terminator)
Strings  == {<<>>, <<"a">>, <<"b", "a">>}
\* caller memory starting at buf: cells 0..bufsize-1 are the buffer, the
\* cells from bufsize on are whatever lies behind it
MemLen   == MaxBuf + 1
FreshMem == [i \in 0..(MemLen - 1) |-> JUNK]
SizeMod  == 2 ^ SizeBits

VARIABLES
    q,          \* the caller's queue handle: NULL or the queue_t block
    head,       \* q->head
    tail,       \* q->tail
    size,       \* q->size
    next,       \* next[n]  = n->next  for each node block
    prev,       \* prev[n]  = n->prev
    value,      \* value[n] = n->value, a string block address or NULL
    strmem,     \* strmem[p] = the bytes of string block p
    nodes,      \* live node blocks
    strs,       \* live string blocks
    heapErr,    \* a block that is not live has been released or accessed
    crashed,    \* the process has faulted inside a call
    lastOp,     \* name of the last call
    path,       \* which return path the last call took
    ret,        \* boolean result of the last call
    sizeRet,    \* result of the last queue_size call
    arg,        \* string the last call inserted
    bufGiven,   \* last queue_remove_head: buf != NULL
    bufsize,    \* last queue_remove_head: bufsize
    mem,        \* caller memory at buf after the last queue_remove_head
    iters,      \* loop iterations of the last queue_reverse / queue_free
    visited,       \* the nodes those iterations had as current, in order
    removed,    \* history: string held by the node the last remove detached
    ref,        \* history: reference sequence of the queue contents
    net,        \* history: successful inserts minus successful removes
    snap,       \* history: heap before the last call
    snap2,      \* history: heap before the call before the last, and
                \* the string that call inserted
    pat,        \* history: shape of the calls since the queue was empty
    ins,        \* history: strings inserted since the queue was empty
    outs        \* history: strings read back from buf since then

heapVars == <<q, head, tail, size, next, prev, value, strmem, nodes, strs, heapErr>>
callVars == <<lastOp, path, ret, sizeRet, arg, bufGiven, bufsize, mem, iters, visited,
              removed>>
histVars == <<ref, net, snap, snap2, pat, ins, outs>>
vars == <<heapVars, crashed, callVars, histVars>>

\* ------------------------------------------------------------- C strings
\* strlen: number of bytes before the first terminator of a block
RECURSIVE strlenFrom(_, _)
strlenFrom(b, i) ==
    IF i > Len(b) \/ b[i] = NUL THEN i - 1 ELSE strlenFrom(b, i + 1)

strlen(b) == strlenFrom(b, 1)

\* strcpy into a fresh block of strlen(s) + 1 bytes: the characters of s
\* and then the terminator
strcpy(s) == [i \in 1..(Len(s) + 1) |-> IF i <= Len(s) THEN s[i] ELSE NUL]

\* the C string a block holds
CStr(b) == SubSeq(b, 1, strlen(b))

\* mutant: one byte less than n is written
strncpy_short(m, src, n) ==
    [i \in DOMAIN m |->
        IF i < n - 1 THEN (IF i < strlen(src) THEN src[i + 1] ELSE NUL) ELSE m[i]]

\* strncpy(dst, src, n) on caller memory m: exactly n bytes are written,
\* the bytes of src up to its terminator and NUL padding after them
strncpy(m, src, n) ==
    [i \in DOMAIN m |->
        IF i < n THEN (IF i < strlen(src) THEN src[i + 1] ELSE NUL) ELSE m[i]]

\* bufsize - 1 in size_t arithmetic
SizeSub1(bs) == (bs - 1) % SizeMod

\* the C string read from caller memory m
RECURSIVE MemStrFrom(_, _)
MemStrFrom(m, i) ==
    IF i \notin DOMAIN m \/ m[i] = NUL THEN <<>>
    ELSE <<m[i]>> \o MemStrFrom(m, i + 1)

MemStr(m) == MemStrFrom(m, 0)

\* ------------------------------------------------------------------ heap
\* malloc (first fit): NULL on failure, otherwise the lowest block that is
\* not live; a full heap leaves only the failure
malloc(live, all) ==
    {NULL} \cup {p \in all \ live : \A r \in all \ live : p <= r}

NoNext == [n \in NodeAddr |-> NULL]
NoStr  == [p \in StrAddr |-> <<>>]

\* the heap as one record, so that the operations are functions on it
Heap == [q |-> q, head |-> head, tail |-> tail, size |-> size,
         next |-> next, prev |-> prev, value |-> value, strmem |-> strmem,
         nodes |-> nodes, strs |-> strs, heapErr |-> heapErr]
NoSnap == [q |-> NULL]
NoSnap2 == [H |-> NoSnap, arg |-> <<>>]

SetHeap(H) ==
    /\ q' = H.q /\ head' = H.head /\ tail' = H.tail /\ size' = H.size
    /\ next' = H.next /\ prev' = H.prev /\ value' = H.value
    /\ strmem' = H.strmem /\ nodes' = H.nodes /\ strs' = H.strs
    /\ heapErr' = H.heapErr

\* free(n) of a node block; the fields of a released block are cleared,
\* nothing may read them
free_node(H, n) ==
    IF n = NULL THEN H
    ELSE [H EXCEPT !.nodes = @ \ {n}, !.next[n] = NULL, !.prev[n] = NULL,
                   !.value[n] = NULL, !.heapErr = @ \/ n \notin H.nodes]

\* free(p) of a string block
free_str(H, p) ==
    IF p = NULL THEN H
    ELSE [H EXCEPT !.strs = @ \ {p}, !.strmem[p] = <<>>,
                   !.heapErr = @ \/ p \notin H.strs]

\* an access to the fields of node block n (n->next, n->prev, n->value)
touch(H, n) == [H EXCEPT !.heapErr = @ \/ n \notin H.nodes]

\* mutant: the test is left out
absent_never(qq) == FALSE

\* the tests q == NULL and !q that open every operation but queue_new
absent(qq) == qq = NULL

\* the strings read head to tail along the next pointers
RECURSIVE Walk(_, _, _)
Walk(H, n, fuel) ==
    IF n = NULL \/ fuel = 0 THEN <<>>
    ELSE <<CStr(H.strmem[H.value[n]])>> \o Walk(H, H.next[n], fuel - 1)

Contents(H) == Walk(H, H.head, MaxNodes + 1)

Reverse(s) == [i \in 1..Len(s) |-> s[Len(s) + 1 - i]]

\* ------------------------------------------------------------- operations
\* queue_new after a successful malloc: an empty queue
new_queue(H) == [H EXCEPT !.q = 1, !.head = NULL, !.tail = NULL, !.size = 0]

\* mutant: the new node is linked behind the tail
insert_head_at_tail(H, newh, p, s) ==
    LET H1 == [H EXCEPT !.nodes = @ \cup {newh}, !.strs = @ \cup {p},
                        !.value[newh] = p, !.strmem[p] = strcpy(s),
                        !.prev[newh] = H.tail, !.next[newh] = NULL]
        H2 == IF H.tail # NULL THEN [H1 EXCEPT !.next[H.tail] = newh]
              ELSE [H1 EXCEPT !.head = newh]
    IN  [H2 EXCEPT !.tail = newh, !.size = @ + 1]

\* mutant: the old head's prev is not set
insert_head_noprev(H, newh, p, s) ==
    LET H1 == [H EXCEPT !.nodes = @ \cup {newh}, !.strs = @ \cup {p},
                        !.value[newh] = p, !.strmem[p] = strcpy(s),
                        !.next[newh] = H.head, !.prev[newh] = NULL]
        H2 == IF H.head # NULL THEN H1 ELSE [H1 EXCEPT !.tail = newh]
    IN  [H2 EXCEPT !.head = newh, !.size = @ + 1]

\* queue_insert_head from the node malloc on: newh is the node block and p
\* the string block malloc returned
insert_head(H, newh, p, s) ==
    LET H1 == [H EXCEPT !.nodes = @ \cup {newh}, !.strs = @ \cup {p},
                        !.value[newh] = p, !.strmem[p] = strcpy(s),
                        !.next[newh] = H.head, !.prev[newh] = NULL]
        H2 == IF H.head # NULL
              THEN [touch(H1, H.head) EXCEPT !.prev[H.head] = newh]
              ELSE [H1 EXCEPT !.tail = newh]
    IN  [H2 EXCEPT !.head = newh, !.size = @ + 1]

\* mutant: the old tail's next is not set
insert_tail_nolink(H, newt, news, s) ==
    LET H1 == [H EXCEPT !.nodes = @ \cup {newt}, !.strs = @ \cup {news},
                        !.strmem[news] = strcpy(s), !.value[newt] = news,
                        !.prev[newt] = H.tail, !.next[newt] = NULL]
        H2 == IF H.tail # NULL THEN H1 ELSE [H1 EXCEPT !.head = newt]
    IN  [H2 EXCEPT !.tail = newt, !.size = @ + 1]

\* mutant: the new node is linked before the head
insert_tail_at_head(H, newt, news, s) == insert_head(H, newt, news, s)

\* queue_insert_tail from the node malloc on
insert_tail(H, newt, news, s) ==
    LET H1 == [H EXCEPT !.nodes = @ \cup {newt}, !.strs = @ \cup {news},
                        !.strmem[news] = strcpy(s), !.value[newt] = news,
                        !.prev[newt] = H.tail, !.next[newt] = NULL]
        H2 == IF H.tail # NULL
              THEN [touch(H1, H.tail) EXCEPT !.next[H.tail] = newt]
              ELSE [H1 EXCEPT !.head = newt]
    IN  [H2 EXCEPT !.tail = newt, !.size = @ + 1]

\* mutant: the node block is not released
insert_str_fail_leak(H, newh) == [H EXCEPT !.nodes = @ \cup {newh}]

\* an insert whose string malloc returned NULL: the node block newh was
\* allocated and is released again
insert_str_fail(H, newh) ==
    free_node([H EXCEPT !.nodes = @ \cup {newh}], newh)

\* queue_remove_head, the statements before the copy: head moves on
remove_advance(H) == [touch(H, H.head) EXCEPT !.head = H.next[H.head]]

\* mutant: only the NULL test, the size is not looked at
remove_fails_nosize(H) == absent(H.q)

\* the early return of queue_remove_head
remove_fails(H) == absent(H.q) \/ H.size = 0

\* mutant: size is not decremented
remove_unlink_nodec(H, old_head) ==
    LET H1 == free_node(free_str(H, H.value[old_head]), old_head)
        H2 == IF H1.head # NULL THEN [H1 EXCEPT !.prev[H1.head] = NULL] ELSE H1
    IN  IF H2.head = NULL THEN [H2 EXCEPT !.tail = NULL] ELSE H2

\* mutant: tail is not cleared when the queue becomes empty
remove_unlink_keeptail(H, old_head) ==
    LET H1 == free_node(free_str(touch(H, old_head), H.value[old_head]), old_head)
        H2 == IF H1.head # NULL
              THEN [touch(H1, H1.head) EXCEPT !.prev[H1.head] = NULL] ELSE H1
    IN  [H2 EXCEPT !.size = @ - 1]

\* mutant: the string of the detached node is not released
remove_unlink_leakstr(H, old_head) ==
    LET H1 == free_node(touch(H, old_head), old_head)
        H2 == IF H1.head # NULL
              THEN [touch(H1, H1.head) EXCEPT !.prev[H1.head] = NULL] ELSE H1
        H3 == [H2 EXCEPT !.size = @ - 1]
    IN  IF H3.head = NULL THEN [H3 EXCEPT !.tail = NULL] ELSE H3

\* mutant: the new head's prev is not cleared
remove_unlink_keepprev(H, old_head) ==
    LET H1 == free_node(free_str(touch(H, old_head), H.value[old_head]), old_head)
        H3 == [H1 EXCEPT !.size = @ - 1]
    IN  IF H3.head = NULL THEN [H3 EXCEPT !.tail = NULL] ELSE H3

\* queue_remove_head, the statements after the copy; old_head is the
\* detached node
remove_unlink(H, old_head) ==
    LET H1 == free_node(free_str(touch(H, old_head), H.value[old_head]), old_head)
        H2 == IF H1.head # NULL
              THEN [touch(H1, H1.head) EXCEPT !.prev[H1.head] = NULL] ELSE H1
        H3 == [H2 EXCEPT !.size = @ - 1]
    IN  IF H3.head = NULL THEN [H3 EXCEPT !.tail = NULL] ELSE H3

\* mutant: bufsize is used where bufsize - 1 is meant
copy_out_offbyone(m, src, bs) ==
    [i \in DOMAIN m |-> IF i = bs THEN NUL ELSE strncpy(m, src, bs)[i]]

\* the copy into buf: strncpy(buf, value, bufsize - 1), then the terminator
\* at buf[bufsize - 1]
copy_out(m, src, bs) ==
    LET n == SizeSub1(bs)
    IN  [strncpy(m, src, n) EXCEPT ![n] = NUL]

\* the copy leaves the modelled caller memory
copy_faults(bs) == SizeSub1(bs) >= MemLen

\* what a copy that faults has written when the fault stops it: the first
\* k bytes of the strncpy
copy_partial(m, src, k) == strncpy(m, src, k)

\* mutant: prev is set from the next that was just overwritten
RECURSIVE reverse_loop_lost(_, _, _)
reverse_loop_lost(H, current, n) ==
    IF current = NULL \/ n > MaxNodes THEN [H |-> H, iters |-> n, visited |-> <<>>]
    ELSE LET tmp == H.next[current]
             r == reverse_loop_lost([H EXCEPT !.next[current] = H.prev[current],
                                              !.prev[current] = H.prev[current]],
                                    tmp, n + 1)
         IN  [r EXCEPT !.visited = <<current>> \o @]

\* mutant: the loop goes on along current->next as it is after the swap
RECURSIVE reverse_loop_newnext(_, _, _)
reverse_loop_newnext(H, current, n) ==
    IF current = NULL \/ n > MaxNodes THEN [H |-> H, iters |-> n, visited |-> <<>>]
    ELSE LET tmp == H.next[current]
             H1 == [touch(H, current) EXCEPT !.next[current] = H.prev[current],
                                             !.prev[current] = tmp]
             r == reverse_loop_newnext(H1, H1.next[current], n + 1)
         IN  [r EXCEPT !.visited = <<current>> \o @]

\* the loop of queue_reverse: swap next and prev of every node from current
\* on; n counts the iterations, visited lists the nodes they worked on
RECURSIVE reverse_loop(_, _, _)
reverse_loop(H, current, n) ==
    IF current = NULL \/ n > MaxNodes THEN [H |-> H, iters |-> n, visited |-> <<>>]
    ELSE LET tmp == H.next[current]
             r == reverse_loop([touch(H, current) EXCEPT
                                    !.next[current] = H.prev[current],
                                    !.prev[current] = tmp], tmp, n + 1)
         IN  [r EXCEPT !.visited = <<current>> \o @]

\* mutant: head and tail are not swapped
reverse_noswap(H) ==
    LET r == reverse_loop(H, H.head, 0)
    IN  [H |-> r.H, iters |-> r.iters, visited |-> r.visited]

\* mutant: the node that was the head is released after the swap
reverse_releases(H) ==
    LET r == reverse_loop(H, H.head, 0)
    IN  [H |-> free_node([r.H EXCEPT !.tail = r.H.head, !.head = r.H.tail],
                         H.head),
         iters |-> r.iters, visited |-> r.visited]

\* queue_reverse after the early return
reverse(H) ==
    LET r == reverse_loop(H, H.head, 0)
    IN  [H |-> [r.H EXCEPT !.tail = r.H.head, !.head = r.H.tail],
         iters |-> r.iters, visited |-> r.visited]

\* mutant: a queue of one node is not returned early
reverse_skips_noone(H) == absent(H.q) \/ H.head = NULL

\* the early return of queue_reverse
reverse_skips(H) ==
    absent(H.q) \/ H.head = NULL \/ H.next[H.head] = NULL

\* mutant: the strings are not released
RECURSIVE free_loop_leak(_, _, _)
free_loop_leak(H, current, n) ==
    IF current = NULL \/ n > MaxNodes THEN [H |-> H, iters |-> n, visited |-> <<>>]
    ELSE LET nxt == H.next[current]
             r == free_loop_leak(free_node(touch(H, current), current), nxt, n + 1)
         IN  [r EXCEPT !.visited = <<current>> \o @]

\* the loop of queue_free: release the string and the node of every node
\* from current on
RECURSIVE free_loop(_, _, _)
free_loop(H, current, n) ==
    IF current = NULL \/ n > MaxNodes THEN [H |-> H, iters |-> n, visited |-> <<>>]
    ELSE LET H1 == touch(free_str(touch(H, current), H.value[current]), current)
             nxt == H1.next[current]
             r == free_loop(free_node(H1, current), nxt, n + 1)
         IN  [r EXCEPT !.visited = <<current>> \o @]

\* queue_free of a queue that is not NULL
free_queue(H) ==
    LET r == free_loop(H, H.head, 0)
    IN  [H |-> [r.H EXCEPT !.head = NULL, !.tail = NULL, !.size = 0, !.q = NULL],
         iters |-> r.iters, visited |-> r.visited]

\* queue_size
size_of(H) == IF absent(H.q) THEN 0 ELSE H.size

Init ==
    /\ q = NULL /\ head = NULL /\ tail = NULL /\ size = 0
    /\ next = NoNext /\ prev = NoNext /\ value = NoNext /\ strmem = NoStr
    /\ nodes = {} /\ strs = {} /\ heapErr = FALSE /\ crashed = FALSE
    /\ lastOp = "none" /\ path = "none" /\ ret = FALSE /\ sizeRet = 0
    /\ arg = <<>> /\ bufGiven = FALSE /\ bufsize = 0 /\ mem = FreshMem
    /\ iters = 0 /\ visited = <<>> /\ removed = <<>>
    /\ ref = <<>> /\ net = 0 /\ snap = NoSnap /\ snap2 = NoSnap2
    /\ pat = "X" /\ ins = <<>> /\ outs = <<>>

\* ---------------------------------------------------------------- history
\* The history variables record what the claims speak about; no operation
\* reads them.
Fill  == {"T", "H"}
Drain == {"Td", "Hd", "TRd"}

\* a successful insert of s; kind is "T" for a tail and "H" for a head insert
PatInsert(kind, s) ==
    IF size = 0 THEN pat' = kind /\ ins' = <<s>> /\ outs' = <<>>
    ELSE IF pat = kind THEN pat' = kind /\ ins' = ins \o <<s>> /\ outs' = outs
    ELSE pat' = "X" /\ ins' = <<>> /\ outs' = <<>>

\* a queue_reverse call on a queue
PatReverse ==
    IF size = 0 THEN pat' = "TR" /\ ins' = <<>> /\ outs' = <<>>
    ELSE IF pat = "T" THEN pat' = "TR" /\ UNCHANGED <<ins, outs>>
    ELSE pat' = "X" /\ ins' = <<>> /\ outs' = <<>>

\* a successful queue_remove_head; seen tells whether the caller's buffer
\* was large enough to hold the whole string, o is what the caller reads
PatRemove(seen, o) ==
    IF seen /\ pat \in {"T", "Td"} THEN pat' = "Td" /\ outs' = outs \o <<o>> /\ ins' = ins
    ELSE IF seen /\ pat \in {"H", "Hd"} THEN pat' = "Hd" /\ outs' = outs \o <<o>> /\ ins' = ins
    ELSE IF seen /\ pat \in {"TR", "TRd"} THEN pat' = "TRd" /\ outs' = outs \o <<o>> /\ ins' = ins
    ELSE pat' = "X" /\ ins' = <<>> /\ outs' = <<>>

\* a queue_remove_head that returns false while strings are still owed
PatRemoveFails ==
    IF pat \in (Fill \cup Drain \cup {"TR"}) /\ Len(outs) < Len(ins)
    THEN /\ pat' = (IF pat \in {"T", "Td"} THEN "Tfail"
                    ELSE IF pat \in {"H", "Hd"} THEN "Hfail" ELSE "TRfail")
         /\ UNCHANGED <<ins, outs>>
    ELSE UNCHANGED <<pat, ins, outs>>

PatReset == pat' = "X" /\ ins' = <<>> /\ outs' = <<>>

\* ----------------------------------------------------------------- actions
NoBuf == bufGiven' = FALSE /\ bufsize' = 0 /\ mem' = FreshMem /\ removed' = <<>>

queue_new ==
    /\ ~crashed /\ q = NULL
    /\ \E qa \in {NULL, 1} :
         /\ IF qa = NULL
            THEN /\ UNCHANGED heapVars
                 /\ path' = "alloc_fail"
                 /\ UNCHANGED <<pat, ins, outs>>
            ELSE /\ SetHeap(new_queue(Heap))
                 /\ path' = "ok"
                 /\ pat' = "T" /\ ins' = <<>> /\ outs' = <<>>
         /\ ret' = (qa # NULL)
    /\ lastOp' = "queue_new" /\ sizeRet' = 0 /\ arg' = <<>>
    /\ iters' = 0 /\ visited' = <<>>
    /\ NoBuf
    /\ ref' = <<>> /\ net' = 0 /\ snap' = NoSnap /\ snap2' = NoSnap2
    /\ UNCHANGED crashed

queue_free ==
    /\ ~crashed
    /\ IF absent(q)
       THEN /\ UNCHANGED heapVars /\ iters' = 0 /\ visited' = <<>>
            /\ path' = "null_q"
       ELSE LET r == free_queue(Heap)
            IN  /\ SetHeap(r.H) /\ iters' = r.iters /\ visited' = r.visited
                /\ path' = "ok"
    /\ lastOp' = "queue_free" /\ ret' = FALSE /\ sizeRet' = 0 /\ arg' = <<>>
    /\ NoBuf
    /\ ref' = <<>> /\ net' = 0 /\ snap' = NoSnap /\ snap2' = NoSnap2
    /\ PatReset
    /\ UNCHANGED crashed

\* the part of an insert call that both inserts share; kind is "H" or "T"
Insert(kind, op, s) ==
    /\ ~crashed
    /\ lastOp' = op /\ sizeRet' = 0 /\ iters' = 0 /\ visited' = <<>>
    /\ NoBuf
    /\ snap' = Heap /\ snap2' = NoSnap2
    /\ UNCHANGED crashed
    /\ IF absent(q)
       THEN /\ UNCHANGED heapVars /\ ret' = FALSE /\ path' = "null_q"
            /\ arg' = <<>>
            /\ UNCHANGED <<ref, net, pat, ins, outs>>
       ELSE \E newn \in malloc(nodes, NodeAddr) :
              IF newn = NULL
              THEN /\ UNCHANGED heapVars /\ ret' = FALSE /\ path' = "node_fail"
                   /\ arg' = <<>>
                   /\ UNCHANGED <<ref, net, pat, ins, outs>>
              ELSE \E p \in malloc(strs, StrAddr) :
                     IF p = NULL
                     THEN /\ SetHeap(insert_str_fail(Heap, newn))
                          /\ ret' = FALSE /\ path' = "str_fail"
                          /\ arg' = <<>>
                          /\ UNCHANGED <<ref, net, pat, ins, outs>>
                     ELSE /\ SetHeap(IF kind = "H"
                                     THEN insert_head(Heap, newn, p, s)
                                     ELSE insert_tail(Heap, newn, p, s))
                          /\ ret' = TRUE /\ path' = "ok"
                          /\ ref' = IF kind = "H" THEN <<s>> \o ref ELSE ref \o <<s>>
                          /\ net' = net + 1 /\ arg' = s
                          /\ PatInsert(kind, s)

queue_insert_head == \E s \in Strings : Insert("H", "queue_insert_head", s)

queue_insert_tail == \E s \in Strings : Insert("T", "queue_insert_tail", s)

queue_remove_head ==
    /\ ~crashed
    /\ lastOp' = "queue_remove_head" /\ arg' = <<>> /\ sizeRet' = 0
    /\ iters' = 0 /\ visited' = <<>>
    /\ snap' = NoSnap
    /\ snap2' = IF lastOp = "queue_insert_head" /\ path = "ok"
                THEN [H |-> snap, arg |-> arg] ELSE NoSnap2
    /\ \E bg \in BOOLEAN, bs \in 0..MaxBuf :
         /\ bufGiven' = bg /\ bufsize' = (IF bg THEN bs ELSE 0)
         /\ IF remove_fails(Heap)
            THEN /\ UNCHANGED <<heapVars, crashed>>
                 /\ ret' = FALSE
                 /\ path' = IF absent(q) THEN "null_q" ELSE "empty"
                 /\ mem' = FreshMem /\ removed' = <<>>
                 /\ UNCHANGED <<ref, net>>
                 /\ PatRemoveFails
            ELSE IF head = NULL
            THEN \* q->head->next reads through a NULL pointer
                 /\ crashed' = TRUE /\ UNCHANGED heapVars
                 /\ ret' = FALSE /\ path' = "null_head"
                 /\ mem' = FreshMem /\ removed' = <<>>
                 /\ UNCHANGED <<ref, net, pat, ins, outs>>
            ELSE LET old_head == head
                     src == IF value[old_head] = NULL THEN <<NUL>>
                            ELSE strmem[value[old_head]]
                     copies == bg /\ value[old_head] # NULL
                     H1 == remove_advance(Heap)
                 IN  IF copies /\ copy_faults(bs)
                     THEN \* the copy runs off the caller's memory: buf[0] is
                          \* written, the fault comes at some later byte
                          /\ \E k \in 1..MemLen : mem' = copy_partial(FreshMem, src, k)
                          /\ crashed' = TRUE /\ SetHeap(H1)
                          /\ ret' = FALSE /\ path' = "fault"
                          /\ removed' = CStr(src)
                          /\ UNCHANGED <<ref, net>> /\ PatReset
                     ELSE /\ mem' = IF copies THEN copy_out(FreshMem, src, bs)
                                    ELSE FreshMem
                          /\ SetHeap(remove_unlink(H1, old_head))
                          /\ UNCHANGED crashed
                          /\ ret' = TRUE /\ path' = "ok"
                          /\ removed' = CStr(src)
                          /\ ref' = Tail(ref) /\ net' = net - 1
                          /\ PatRemove(copies /\ bs >= Len(CStr(src)) + 1, MemStr(mem'))

queue_size ==
    /\ ~crashed
    /\ lastOp' = "queue_size" /\ sizeRet' = size_of(Heap)
    /\ path' = IF absent(q) THEN "null_q" ELSE "ok"
    /\ ret' = FALSE /\ arg' = <<>> /\ iters' = 0 /\ visited' = <<>>
    /\ NoBuf
    /\ snap' = NoSnap /\ snap2' = NoSnap2
    /\ UNCHANGED <<heapVars, crashed, ref, net, pat, ins, outs>>

queue_reverse ==
    /\ ~crashed
    /\ lastOp' = "queue_reverse" /\ ret' = FALSE /\ sizeRet' = 0 /\ arg' = <<>>
    /\ NoBuf
    /\ IF reverse_skips(Heap)
       THEN /\ UNCHANGED heapVars /\ iters' = 0 /\ visited' = <<>>
            /\ path' = IF absent(q) THEN "null_q" ELSE "skip"
       ELSE LET r == reverse(Heap)
            IN  /\ SetHeap(r.H) /\ iters' = r.iters /\ visited' = r.visited
                /\ path' = "ok"
    /\ snap' = Heap
    /\ snap2' = IF lastOp = "queue_reverse"
                THEN [H |-> snap, arg |-> <<>>] ELSE NoSnap2
    /\ IF absent(q)
       THEN UNCHANGED <<ref, pat, ins, outs>>
       ELSE ref' = Reverse(ref) /\ PatReverse
    /\ UNCHANGED <<crashed, net>>

Next ==
    \/ queue_new
    \/ queue_free
    \/ queue_insert_head
    \/ queue_insert_tail
    \/ queue_remove_head
    \/ queue_size
    \/ queue_reverse

Spec == Init /\ [][Next]_vars

\* ------------------------------------------------------------------ claims
Running == ~crashed

\* C1: after any sequence of insert, remove and reverse calls that returned,
\* successful or not, the strings read head to tail along next are the
\* reference sequence (insert_head prepends, insert_tail appends, remove_head
\* drops the first, reverse reverses, a failed call changes nothing).
C1_ContentsMatchReference == Running => Contents(Heap) = ref

C1_Witness ==
    /\ Running /\ lastOp = "queue_insert_head" /\ path = "ok"
    /\ ref = << <<"b", "a">>, <<>>, <<"a">> >>
    /\ Contents(Heap) = ref

\* C2: queue_size returns the number of successful inserts minus the number
\* of successful removes, whatever calls failed in between.
C2_SizeIsInsertsMinusRemoves ==
    /\ Running => size_of(Heap) = net
    /\ lastOp = "queue_size" => sizeRet = net

C2_Witness == lastOp = "queue_size" /\ path = "ok" /\ sizeRet = 2 /\ net = 2

\* the first n elements of s
Prefix(s, n) == SubSeq(s, 1, n)

\* C3: FIFO.  While only successful queue_insert_tail calls have filled an
\* empty queue and queue_remove_head calls with a large enough buffer drain
\* it, no remove fails before all strings are out, the strings read from the
\* buffers are the inserted ones in insertion order, and when all are out the
\* queue is empty.
C3_Fifo ==
    /\ pat # "Tfail"
    /\ pat \in {"T", "Td"} =>
         /\ Len(outs) <= Len(ins)
         /\ outs = Prefix(ins, Len(outs))
    /\ (pat = "Td" /\ Len(outs) = Len(ins)) =>
         size_of(Heap) = 0 /\ head = NULL /\ tail = NULL

C3_Witness ==
    /\ pat = "Td" /\ Len(ins) = 3 /\ outs = ins
    /\ ins[1] # ins[2] /\ ins[2] # ins[3] /\ ins[1] # ins[3]

\* C4: LIFO.  The same with queue_insert_head: the strings come out in the
\* reverse of the insertion order, and then the queue is empty.
C4_Lifo ==
    /\ pat # "Hfail"
    /\ pat \in {"H", "Hd"} =>
         /\ Len(outs) <= Len(ins)
         /\ outs = Prefix(Reverse(ins), Len(outs))
    /\ (pat = "Hd" /\ Len(outs) = Len(ins)) =>
         size_of(Heap) = 0 /\ head = NULL /\ tail = NULL

C4_Witness ==
    /\ pat = "Hd" /\ Len(ins) = 3 /\ outs = Reverse(ins)
    /\ ins[1] # ins[2] /\ ins[2] # ins[3] /\ ins[1] # ins[3]

\* C5: reverse correctness.  After tail inserts of x1..xn (n >= 0) and one
\* queue_reverse, queue_size is still n, and the removes that follow succeed
\* and yield xn, ..., x1.
C5_ReverseCorrect ==
    /\ pat # "TRfail"
    /\ pat = "TR" => size_of(Heap) = Len(ins)
    /\ pat \in {"TR", "TRd"} =>
         /\ Len(outs) <= Len(ins)
         /\ outs = Prefix(Reverse(ins), Len(outs))

C5_Witness ==
    /\ pat = "TRd" /\ Len(ins) = 3 /\ outs = Reverse(ins)
    /\ ins[1] # ins[2] /\ ins[2] # ins[3] /\ ins[1] # ins[3]

\* C6: two queue_reverse calls in a row restore the state before the first:
\* the same head, tail, size, and the same next and prev of every node.
C6_ReverseTwice ==
    (lastOp = "queue_reverse" /\ snap2 # NoSnap2) => Heap = snap2.H

C6_Witness ==
    /\ lastOp = "queue_reverse" /\ snap2 # NoSnap2 /\ path = "ok"
    /\ size = 3 /\ Heap = snap2.H /\ snap # Heap

\* the cells of caller memory the last call wrote
Written == {i \in DOMAIN mem : mem[i] # JUNK}

\* C7: a queue_remove_head that copies into buf writes only the cells
\* 0..bufsize-1 and leaves a terminator in one of them, for every bufsize.
C7_CopyStaysInBuffer ==
    (lastOp = "queue_remove_head" /\ bufGiven /\ path \in {"ok", "fault"}) =>
        /\ Running
        /\ \A i \in Written : i < bufsize
        /\ \E i \in 0..(bufsize - 1) : mem[i] = NUL

\* C8: truncation.  A successful queue_remove_head into a buffer of capacity
\* k >= 1 of a string longer than k - 1 leaves the first k - 1 characters of
\* the string in the buffer and the terminator at k - 1; it returns true and
\* the element is removed.
C8_Truncation ==
    (/\ lastOp = "queue_remove_head" /\ path = "ok" /\ bufGiven
     /\ bufsize >= 1 /\ Len(removed) > bufsize - 1) =>
        /\ \A i \in 0..(bufsize - 2) : mem[i] = removed[i + 1]
        /\ mem[bufsize - 1] = NUL
        /\ MemStr(mem) = Prefix(removed, bufsize - 1)
        /\ ret = TRUE
        /\ Contents(Heap) = ref /\ size_of(Heap) = Len(ref)

C8_Witness ==
    /\ lastOp = "queue_remove_head" /\ path = "ok" /\ bufGiven
    /\ bufsize = 2 /\ removed = <<"b", "a">> /\ MemStr(mem) = <<"b">>

\* C9: round trip.  A successful queue_insert_head(q, s) followed at once by
\* queue_remove_head with a buffer of at least len(s) + 1 bytes returns
\* true, leaves s and its terminator in the buffer, and the queue has the
\* contents and the size it had before the insert.
C9_RoundTrip ==
    (/\ lastOp = "queue_remove_head" /\ snap2 # NoSnap2
     /\ bufGiven /\ bufsize >= Len(snap2.arg) + 1) =>
        /\ Running /\ ret = TRUE /\ path = "ok"
        /\ \A i \in 0..(Len(snap2.arg) - 1) : mem[i] = snap2.arg[i + 1]
        /\ mem[Len(snap2.arg)] = NUL
        /\ MemStr(mem) = snap2.arg
        /\ Contents(Heap) = Contents(snap2.H)
        /\ size_of(Heap) = size_of(snap2.H)

C9_Witness ==
    /\ lastOp = "queue_remove_head" /\ snap2 # NoSnap2 /\ Running
    /\ bufGiven /\ bufsize = 3 /\ snap2.arg = <<"b", "a">>
    /\ MemStr(mem) = <<"b", "a">> /\ size = 2

\* C10: an insert whose node malloc or string malloc fails returns false and
\* leaves head, tail, size, every node's next, prev and value, and the sets
\* of live node and string blocks as they were.
C10_FailedInsertChangesNothing ==
    (/\ lastOp \in {"queue_insert_head", "queue_insert_tail"}
     /\ path \in {"node_fail", "str_fail"}) =>
        ret = FALSE /\ Heap = snap

C10_Witness ==
    /\ lastOp = "queue_insert_tail" /\ path = "str_fail" /\ ret = FALSE
    /\ size = 2 /\ Cardinality(nodes) = 2 /\ Heap = snap

\* C11: queue_remove_head on an absent queue or on an empty one returns
\* false and changes nothing: head, tail, size, every node, the live blocks
\* and the caller's buffer are as before the call.
C11_RemoveOnEmptyChangesNothing ==
    [][(lastOp' = "queue_remove_head" /\ (q = NULL \/ size = 0)) =>
          /\ ret' = FALSE /\ path' \in {"null_q", "empty"}
          /\ Heap' = Heap /\ ~crashed'
          /\ mem' = FreshMem]_vars

C11_Witness ==
    /\ lastOp = "queue_remove_head" /\ path = "empty" /\ ret = FALSE
    /\ bufGiven /\ bufsize = 2 /\ mem = FreshMem
    /\ pat = "Td" /\ Len(outs) = 2 /\ size = 0

\* C12: every operation on a NULL queue handle returns at once with its
\* default: queue_size 0, the inserts and queue_remove_head false,
\* queue_free and queue_reverse nothing; no block is allocated or released
\* and nothing is written to the caller's buffer.
C12_AbsentHandle ==
    [][(q = NULL /\ lastOp' # "queue_new") =>
          /\ path' = "null_q" /\ ~crashed'
          /\ Heap' = Heap /\ mem' = FreshMem
          /\ lastOp' = "queue_size" => sizeRet' = 0
          /\ lastOp' \in {"queue_insert_head", "queue_insert_tail",
                          "queue_remove_head"} => ret' = FALSE]_vars

C12_Witness ==
    /\ q = NULL /\ lastOp = "queue_insert_tail" /\ path = "null_q"
    /\ ret = FALSE /\ nodes = {} /\ strs = {}

\* C13: queue_reverse allocates and releases nothing: the live node blocks
\* and string blocks, every node's value, every string and the size are the
\* same after the call as before it.
C13_ReverseKeepsBlocks ==
    lastOp = "queue_reverse" =>
        /\ nodes = snap.nodes /\ strs = snap.strs
        /\ value = snap.value /\ strmem = snap.strmem
        /\ size = snap.size /\ q = snap.q
        /\ heapErr = snap.heapErr

C13_Witness ==
    /\ lastOp = "queue_reverse" /\ path = "ok" /\ size = 3
    /\ nodes = snap.nodes /\ Cardinality(nodes) = 3
    /\ next # snap.next /\ head = snap.tail /\ head # snap.head

\* C14: queue_free of a queue releases every node block and every string
\* block that is live, each once, and then the queue: afterwards no block
\* is live and no release has hit a block that was not live.
C14_FreeReleasesAll ==
    (lastOp = "queue_free" /\ path = "ok") =>
        /\ nodes = {} /\ strs = {} /\ q = NULL
        /\ ~heapErr /\ Running

C14_Witness ==
    /\ lastOp = "queue_free" /\ path = "ok" /\ iters = 3
    /\ nodes = {} /\ strs = {} /\ q = NULL

\* the nodes met from n along the pointer field f, n included
RECURSIVE Chain(_, _, _)
Chain(f, n, fuel) ==
    IF n = NULL \/ fuel = 0 THEN <<>>
    ELSE <<n>> \o Chain(f, f[n], fuel - 1)

NextChain == Chain(next, head, MaxNodes + 1)
PrevChain == Chain(prev, tail, MaxNodes + 1)
Distinct(s) == \A i, j \in DOMAIN s : i # j => s[i] # s[j]
Range(s) == {s[i] : i \in DOMAIN s}

\* C15: between operations size is 0 exactly if head is NULL, exactly if
\* tail is NULL; so queue_remove_head, which tests size, never reads through
\* a NULL head, and the test of queue_reverse on head and head->next returns
\* early exactly for the sizes 0 and 1.
C15_EmptyIffNoHeadIffNoTail ==
    /\ path # "null_head"
    /\ Running =>
         /\ (size = 0) <=> (head = NULL)
         /\ (head = NULL) <=> (tail = NULL)
         /\ q # NULL => (reverse_skips(Heap) <=> size <= 1)

C15_Witness ==
    /\ Running /\ lastOp = "queue_remove_head" /\ path = "ok"
    /\ q # NULL /\ size = 0 /\ head = NULL /\ tail = NULL
    /\ pat = "TRd" /\ Len(outs) = 2

\* C16: between operations, following next from head reaches NULL after
\* exactly size steps and following prev from tail reaches NULL after
\* exactly size steps, and no node is met twice on either way.
C16_ChainsHaveSizeNodes ==
    Running =>
        /\ Len(NextChain) = size /\ Distinct(NextChain)
        /\ Len(PrevChain) = size /\ Distinct(PrevChain)

C16_Witness ==
    /\ Running /\ lastOp = "queue_reverse" /\ path = "ok" /\ size = 3
    /\ Len(NextChain) = 3 /\ PrevChain = Reverse(NextChain)
    /\ NextChain # <<1, 2, 3>> /\ NextChain # <<3, 2, 1>>

\* C17: between operations next and prev are inverse to each other on the
\* nodes of the queue, and the ends are closed: head->prev and tail->next
\* are NULL when the queue is not empty.
C17_LinksAreInverse ==
    Running =>
        /\ \A n \in nodes :
             /\ next[n] # NULL => prev[next[n]] = n
             /\ prev[n] # NULL => next[prev[n]] = n
        /\ head # NULL => prev[head] = NULL
        /\ tail # NULL => next[tail] = NULL
        /\ size > 0 => head # NULL /\ tail # NULL

C17_Witness ==
    /\ Running /\ lastOp = "queue_insert_tail" /\ path = "ok" /\ size = 3
    /\ next[head] # NULL /\ next[next[head]] = tail
    /\ prev[tail] = next[head] /\ prev[next[head]] = head
    /\ head > tail

\* the live blocks are those of the queue: the node blocks are the nodes on
\* the next chain from head, the string blocks are their values, one each
LiveIsReachable ==
    /\ nodes = Range(NextChain)
    /\ strs = {value[n] : n \in nodes}
    /\ Cardinality(strs) = Cardinality(nodes)
    /\ NULL \notin strs
    /\ tail # NULL => tail \in nodes
    /\ ~heapErr

\* a step that is a successful insert
InsertOk ==
    lastOp' \in {"queue_insert_head", "queue_insert_tail"} /\ path' = "ok"

\* a step that is a successful queue_remove_head
RemoveOk == lastOp' = "queue_remove_head" /\ path' = "ok"

\* C18: between operations the live node blocks are exactly the nodes
\* reachable from head and the live string blocks exactly their values; a
\* successful insert adds one node block and one string block, a successful
\* queue_remove_head releases the head node and its string and nothing
\* else, and no block that is not live is reachable, released or accessed.
C18_LiveBlocksAreTheQueue ==
    /\ [](Running => LiveIsReachable)
    /\ [][InsertOk =>
            /\ \E n \in NodeAddr \ nodes : nodes' = nodes \cup {n}
            /\ \E p \in StrAddr \ strs : strs' = strs \cup {p}]_vars
    /\ [][RemoveOk =>
            /\ head \in nodes /\ nodes' = nodes \ {head}
            /\ value[head] \in strs /\ strs' = strs \ {value[head]}]_vars

C18_Witness ==
    /\ Running /\ lastOp = "queue_remove_head" /\ path = "ok"
    /\ size = 2 /\ nodes = {2, 3} /\ LiveIsReachable

\* C19: queue_reverse on a NULL queue, an empty queue or a queue of one
\* node returns early and leaves head, tail, size and every node as they
\* were; for one node the swap loop and the head/tail swap would have given
\* the same state.
C19_ReverseEarlyReturn ==
    (lastOp = "queue_reverse" /\ (snap.q = NULL \/ snap.size <= 1)) =>
        /\ path \in {"null_q", "skip"} /\ iters = 0 /\ visited = <<>>
        /\ Heap = snap
        /\ (snap.q # NULL /\ snap.size = 1) => reverse(snap).H = snap

C19_Witness ==
    /\ lastOp = "queue_reverse" /\ path = "skip" /\ q # NULL
    /\ size = 1 /\ snap.size = 1 /\ Heap = snap /\ head = tail /\ head # NULL

\* a step that is a queue_reverse past its early return, or a queue_free of
\* a queue
LoopRuns == lastOp' \in {"queue_reverse", "queue_free"} /\ path' = "ok"

\* C20: the loops of queue_reverse and queue_free end, after exactly size
\* iterations, and the nodes they work on are the nodes of the queue in
\* head to tail order, each once.
C20_LoopsVisitEachNodeOnce ==
    [][LoopRuns =>
          /\ iters' = size /\ iters' <= MaxNodes
          /\ visited' = NextChain /\ Distinct(visited')
          /\ Range(visited') = nodes]_vars

C20_Witness ==
    /\ lastOp = "queue_free" /\ path = "ok" /\ iters = 3
    /\ Len(visited) = 3 /\ visited # <<1, 2, 3>> /\ visited # <<3, 2, 1>>

====
